---- MODULE Spec2Model ----
(***************************************************************************)
(* Side Quest: the quest-claim and scoring core.                           *)
(*                                                                         *)
(* The model follows the route handlers and the stored procedures:         *)
(*   - claim_quest / increment_points   (scripts/complete_migration.sql)   *)
(*   - POST progress                    (api/admin/geothinkr/route.js,     *)
(*                                       lines 320-478)                    *)
(*   - POST guess                       (api/geothinkr/game/route.js)      *)
(*   - POST manual award                (api/admin/points/route.js)        *)
(*                                                                         *)
(* Every request is a process.  Each await on the store is one step, so    *)
(* two requests interleave exactly where the handlers suspend.  The store  *)
(* is PostgreSQL under READ COMMITTED: a single statement is atomic, a     *)
(* function body is one transaction, and an UPDATE takes a row lock that   *)
(* is held until the transaction commits or rolls back.                    *)
(***************************************************************************)
EXTENDS Integers, Sequences, FiniteSets, TLC

(***************************************************************************)
(* Bounds of the model.                                                    *)
(***************************************************************************)
MaxQuestReqs == 2

MaxGuessReqs == 2

MaxPhotos == 51
MaxHints == 6
MaxClicks == 2
TOTAL_ROUNDS == 5

(***************************************************************************)
(* Static data: users, quests, photos.                                     *)
(***************************************************************************)
NoUser == "none"

Users == {"u1", "u2"}

Admins == {"u1"}

Identities == Users \cup {NoUser}

DefaultReward == 100

\* qz is a quest whose stored reward_points is 0.
Quests == {"qm", "qs", "qz"}

QuestTable ==
    [q \in Quests |->
        IF q = "qm" THEN [is_multiplayer |-> TRUE,  reward_points |-> 250]
        ELSE IF q = "qs" THEN [is_multiplayer |-> FALSE, reward_points |-> 50]
        ELSE [is_multiplayer |-> FALSE, reward_points |-> 0]]

\* The quests that completion requests name where the reward is not at issue.
PlayQuests == {"qm", "qs"}

\* The photos are numbered.  Photo 1 is a landmark, photos 2 to 5 are of the
\* four other categories, every later photo is a landmark again.
Photos == 1..MaxPhotos

PhotoCategory(p) ==
    CASE p = 2 -> "building"
      [] p = 3 -> "nature"
      [] p = 4 -> "statue"
      [] p = 5 -> "other"
      [] OTHER -> "landmark"

PhotoTable ==
    [p \in Photos |-> [x_coordinate |-> 100, y_coordinate |-> 100,
                       category |-> PhotoCategory(p), verified |-> TRUE]]

\* The photos a guess request names: one where the requests compete for a
\* photo, two where the guesses of a user on different photos run together.
PlayPhotos == {1}

PairPhotos == <<1, 2>>

GuessBodies ==
    { [x |-> 100, y |-> 100, hints_used |-> 0, difficulty |-> "easy"],
      [x |-> 100, y |-> 140, hints_used |-> 1, difficulty |-> "hard"],
      [x |-> 900, y |-> 900, hints_used |-> 0, difficulty |-> "medium"] }

\* Guesses for the scoring table: offsets from the photo at (100, 100) that
\* put the distance on each radius (50, 75, 100, 150, 200, 300), on and off
\* the axes, and just beyond it (75 and 1 give the distance 75.007).
ScoreOffsetsX ==
    {0, 30, 45, 50, 51, 60, 75, 76, 90, 100, 101, 120, 150, 151, 180, 200, 201, 300, 301}

ScoreOffsetsY == {0, 1, 40, 60, 80, 120, 160, 240}

Difficulties == {"easy", "medium", "hard", "expert"}

ScoreBodies ==
    { [x |-> 100 + dx, y |-> 100 + dy, hints_used |-> h, difficulty |-> d] :
          dx \in ScoreOffsetsX, dy \in ScoreOffsetsY, h \in 0..MaxHints, d \in Difficulties }

\* Guesses whose hints_used is any integer the client chooses.
HintBodies ==
    { [x |-> 100 + dx, y |-> 100, hints_used |-> h, difficulty |-> d] :
          dx \in {0, 120, 400}, h \in (0 - MaxHints)..MaxHints, d \in Difficulties }

ManualAmounts == {10, -10}

AchievementKeys ==
    {"first_guess", "games_10", "games_50", "spot_on_5", "spot_on_10",
     "no_hints", "perfect_streak_3", "all_categories"}

AllCategories == {"landmark", "building", "nature", "statue", "other"}

(***************************************************************************)
(* State.                                                                  *)
(*   points            users.points                                        *)
(*   winner            quests.winner_id (committed value)                  *)
(*   questLock         the request whose open transaction holds the row    *)
(*                     lock of the quest (0: none)                         *)
(*   progress          rows of the progress table                          *)
(*   history           rows of geothinkr_history in created_at order       *)
(*   user_achievements rows of user_achievements                           *)
(*   geothinkr_photos  the photo rows, as what differs from PhotoTable:    *)
(*                     the photos deleted, those whose verified flag is    *)
(*                     off, and the photos added                           *)
(*   req               the requests: inputs, position, locals, response;   *)
(*                     credit is the amount the request has added to a     *)
(*                     balance so far                                      *)
(***************************************************************************)
VARIABLES points, winner, questLock, progress, history, user_achievements,
          geothinkr_photos, req, page

vars == <<points, winner, questLock, progress, history, user_achievements,
          geothinkr_photos, req, page>>

Idle ==
    [kind |-> "idle", lane |-> "any", user |-> NoUser, pc |-> "idle", status |-> 0,
     arg |-> "", completed |-> FALSE, amount |-> 0, tier |-> "", hints |-> 0,
     existing |-> 0, cur |-> 0, toAward |-> {}, credit |-> 0,
     claim |-> "none", earned |-> {}, balance |-> 0, failed |-> FALSE,
     x |-> 0, y |-> 0, difficulty |-> "", base |-> 0, seen |-> <<>>]

Slots == DOMAIN req

\* The game page before a game is started: gameState, currentRound, whether
\* a guess is placed, the round timer ("off" when unlimited), the guess
\* submissions sent for the photo shown and those still without a response.
Menu ==
    [gameState |-> "menu", currentRound |-> 1, guess |-> FALSE, timer |-> "off",
     sent |-> 0, pending |-> 0]

InitWith(lanes) ==
    /\ points = [u \in Users |-> 0]
    /\ winner = [q \in Quests |-> NoUser]
    /\ questLock = [q \in Quests |-> 0]
    /\ progress = {}
    /\ history = <<>>
    /\ user_achievements = {}
    /\ geothinkr_photos = [deleted |-> {}, unverified |-> {}, added |-> {}]
    /\ req = [r \in DOMAIN lanes |-> [Idle EXCEPT !.lane = lanes[r]]]
    /\ page = Menu

\* A slot of lane "any" takes a request of any kind; such slots are taken in
\* order, which removes the permutations of equal runs.  A slot of another
\* lane takes only a request of that kind, at any time.
CanStart(r, kind) ==
    /\ req[r].kind = "idle"
    /\ req[r].lane \in {"any", kind}
    /\ IF r = 1 \/ req[r].lane # "any" THEN TRUE ELSE req[r - 1].kind # "idle"

Respond(rec, code) == [rec EXCEPT !.pc = "done", !.status = code]

(***************************************************************************)
(* increment_points: UPDATE users SET points = points + amount.            *)
(***************************************************************************)
increment_points(pts, user_id, amount) ==
    [pts EXCEPT ![user_id] = @ + amount]

(***************************************************************************)
(* POST progress.                                                          *)
(***************************************************************************)
\* .single(): the row when exactly one matches, otherwise an error and no data.
Single(rows) == IF Cardinality(rows) = 1 THEN CHOOSE x \in rows : TRUE ELSE [id |-> 0]

existingProgress(u, q) ==
    Single({p \in progress : p.user = u /\ p.quest = q}).id

\* const pointsToAward = quest.reward_points || 100
pointsToAward(q) ==
    IF QuestTable[q].reward_points = 0 THEN DefaultReward
    ELSE QuestTable[q].reward_points

ShouldAward_AlsoMultiplayer(rec) == rec.completed

\* existingProgress is selected with the column progress_id only, so
\* existingProgress.completed is undefined and the third conjunct is true.
ShouldAward(rec) ==
    /\ ~QuestTable[rec.arg].is_multiplayer
    /\ rec.completed
    /\ (rec.existing = 0 \/ TRUE)

AfterClaim(rec) ==
    IF ShouldAward(rec) THEN [rec EXCEPT !.pc = "p_inc"] ELSE Respond(rec, 200)

StartProgress(r, u, q, c) ==
    /\ CanStart(r, "progress")
    /\ req' = [req EXCEPT ![r] =
          IF u = NoUser
          THEN Respond([Idle EXCEPT !.kind = "progress"], 401)
          ELSE [Idle EXCEPT !.kind = "progress", !.user = u, !.arg = q,
                            !.completed = c, !.pc = "p_write",
                            !.existing = existingProgress(u, q)]]
    /\ UNCHANGED <<points, winner, questLock, progress, history, user_achievements, geothinkr_photos, page>>

ProgressWrite(r, ok) ==
    LET rec == req[r] IN
    /\ rec.pc = "p_write"
    /\ IF ~ok
       THEN /\ req' = [req EXCEPT ![r] = Respond(rec, 500)]
            /\ UNCHANGED progress
       ELSE /\ progress' =
                 IF rec.existing # 0
                 THEN {IF p.id = rec.existing
                       THEN [p EXCEPT !.completed = rec.completed] ELSE p : p \in progress}
                 ELSE progress \cup {[id |-> r, user |-> rec.user, quest |-> rec.arg,
                                      completed |-> rec.completed]}
            /\ req' = [req EXCEPT ![r].pc = "c_select"]
    /\ UNCHANGED <<points, winner, questLock, history, user_achievements, geothinkr_photos, page>>

(***************************************************************************)
(* claim_quest(p_quest_id, p_user_id): one transaction of three            *)
(* statements.  ClaimSelect is the SELECT and the two IFs, ClaimUpdate the *)
(* conditional UPDATE of quests, ClaimCommit the UPDATE of users and the   *)
(* commit.  The writes become visible together at the commit.              *)
(***************************************************************************)
IsMultiplayer_Always(q) == TRUE

\* The mutation of IsMultiplayer under which claim_quest closes no quest.
IsMultiplayer_Never(q) == FALSE

\* v_is_multiplayer, as read by the SELECT.
IsMultiplayer(q) == QuestTable[q].is_multiplayer

\* claimSuccess === false: the route answers 409 and stops.
ClaimLost_FallThrough(rec) == AfterClaim([rec EXCEPT !.claim = "false"])

ClaimLost(rec) == Respond([rec EXCEPT !.claim = "false"], 409)

ClaimSelect(r) ==
    LET rec == req[r]
        q == rec.arg IN
    /\ rec.pc = "c_select"
    /\ req' = [req EXCEPT ![r] =
          IF ~IsMultiplayer(q)
          THEN AfterClaim([rec EXCEPT !.claim = "true"])
          ELSE IF winner[q] # NoUser
          THEN ClaimLost(rec)
          ELSE [rec EXCEPT !.pc = "c_update"]]
    /\ UNCHANGED <<points, winner, questLock, progress, history, user_achievements, geothinkr_photos, page>>

\* UPDATE quests SET winner_id = p_user_id WHERE quest_id = .. AND winner_id IS NULL
\* waits for the row lock, then evaluates its predicate on the committed row.
WinnerIsNull_Unguarded(q) == TRUE

WinnerIsNull(q) == winner[q] = NoUser

ClaimUpdate(r) ==
    LET rec == req[r]
        q == rec.arg IN
    /\ rec.pc = "c_update"
    /\ questLock[q] = 0
    /\ IF WinnerIsNull(q)
       THEN /\ questLock' = [questLock EXCEPT ![q] = r]
            /\ req' = [req EXCEPT ![r].pc = "c_commit"]
       ELSE /\ req' = [req EXCEPT ![r] = ClaimLost(rec)]
            /\ UNCHANGED questLock
    /\ UNCHANGED <<points, winner, progress, history, user_achievements, geothinkr_photos, page>>

ClaimPayout_Missing(pts, u, q) == pts

ClaimPayout_Default(pts, u, q) == increment_points(pts, u, DefaultReward)

\* UPDATE users SET points = points + (v_points) WHERE user_id = p_user_id
ClaimPayout(pts, u, q) == increment_points(pts, u, QuestTable[q].reward_points)

ClaimCommit(r) ==
    LET rec == req[r]
        q == rec.arg IN
    /\ rec.pc = "c_commit"
    /\ winner' = [winner EXCEPT ![q] = rec.user]
    /\ points' = ClaimPayout(points, rec.user, q)
    /\ questLock' = [questLock EXCEPT ![q] = 0]
    /\ req' = [req EXCEPT ![r] =
          AfterClaim([rec EXCEPT !.claim = "true",
                                 !.credit = @ + (points'[rec.user] - points[rec.user])])]
    /\ UNCHANGED <<progress, history, user_achievements, geothinkr_photos, page>>

\* The rpc returns an error (the store rejects or loses the call): the
\* transaction rolls back and the route logs the error and falls through.
\* claim is "rolledback" when the UPDATE of quests had been done, else "error".
ClaimError(r) ==
    LET rec == req[r]
        q == rec.arg IN
    /\ rec.pc \in {"c_select", "c_update", "c_commit"}
    /\ questLock' = [questLock EXCEPT ![q] = IF @ = r THEN 0 ELSE @]
    /\ req' = [req EXCEPT ![r] =
          AfterClaim([rec EXCEPT !.claim =
                          IF questLock[q] = r THEN "rolledback" ELSE "error"])]
    /\ UNCHANGED <<points, winner, progress, history, user_achievements, geothinkr_photos, page>>

ProgressIncrement(r, ok) ==
    LET rec == req[r] IN
    /\ rec.pc = "p_inc"
    /\ IF ok
       THEN /\ points' = increment_points(points, rec.user, pointsToAward(rec.arg))
            /\ req' = [req EXCEPT ![r] =
                  Respond([rec EXCEPT !.credit = @ + pointsToAward(rec.arg)], 200)]
       ELSE /\ req' = [req EXCEPT ![r].pc = "p_fb_select"]
            /\ UNCHANGED points
    /\ UNCHANGED <<winner, questLock, progress, history, user_achievements, geothinkr_photos, page>>

FallbackSelect(r) ==
    LET rec == req[r] IN
    /\ rec.pc = "p_fb_select"
    /\ req' = [req EXCEPT ![r].pc = "p_fb_update", ![r].cur = points[rec.user]]
    /\ UNCHANGED <<points, winner, questLock, progress, history, user_achievements, geothinkr_photos, page>>

FallbackUpdate(r) ==
    LET rec == req[r] IN
    /\ rec.pc = "p_fb_update"
    /\ points' = [points EXCEPT ![rec.user] = rec.cur + pointsToAward(rec.arg)]
    /\ req' = [req EXCEPT ![r] =
          Respond([rec EXCEPT !.credit = @ + pointsToAward(rec.arg)], 200)]
    /\ UNCHANGED <<winner, questLock, progress, history, user_achievements, geothinkr_photos, page>>

(***************************************************************************)
(* Scoring (game/route.js).  Math.sqrt(dx*dx + dy*dy) <= R is decided on   *)
(* the squares, which is exact for integer coordinates and these radii.    *)
(***************************************************************************)
getScoringThresholds(difficulty) ==
    CASE difficulty = "easy"   -> [spotOnRadius |-> 100, closeRadius |-> 300]
      [] difficulty = "medium" -> [spotOnRadius |-> 75,  closeRadius |-> 200]
      [] difficulty = "hard"   -> [spotOnRadius |-> 50,  closeRadius |-> 150]
      [] OTHER                 -> [spotOnRadius |-> 100, closeRadius |-> 300]

DistSq(photo, x, y) ==
    (photo.x_coordinate - x) * (photo.x_coordinate - x)
        + (photo.y_coordinate - y) * (photo.y_coordinate - y)

\* The mutation of Within that excludes the boundary.
Within_Exclusive(dsq, radius) == dsq < radius * radius

Within(dsq, radius) == dsq <= radius * radius

Tier(dsq, difficulty) ==
    LET t == getScoringThresholds(difficulty) IN
    IF Within(dsq, t.spotOnRadius) THEN "Spot-on!"
    ELSE IF Within(dsq, t.closeRadius) THEN "Close enough"
    ELSE "Nope"

basePoints(tier) ==
    IF tier = "Spot-on!" THEN 500 ELSE IF tier = "Close enough" THEN 200 ELSE 0

Min(a, b) == IF a <= b THEN a ELSE b

Max(a, b) == IF a >= b THEN a ELSE b

\* The mutation of finalPoints without the cap of the deduction and the floor.
finalPoints_NoFloor(base, hints_used) == base - hints_used * 100

finalPoints(base, hints_used) ==
    LET hintDeduction == Min(hints_used * 100, base) IN
    Max(base - hintDeduction, 0)

(***************************************************************************)
(* checkAndAwardAchievements: the rules on the user's history.             *)
(***************************************************************************)
HistoryOf(u) == SelectSeq(history, LAMBDA h : h.user = u)

\* The mutation of SpotOnCount that counts every attempt that scored.
SpotOnCount_Scored(hist) == Cardinality({i \in 1..Len(hist) : hist[i].points > 0})

SpotOnCount(hist) == Cardinality({i \in 1..Len(hist) : hist[i].points >= 500})

Qualified(hist, latestTier, hintsUsed) ==
    LET totalGames == Len(hist)
        spotOns == SpotOnCount(hist)
        played == {PhotoTable[hist[i].photo].category : i \in 1..Len(hist)}
    IN  {k \in AchievementKeys :
            \/ k = "first_guess" /\ totalGames >= 1
            \/ k = "games_10" /\ totalGames >= 10
            \/ k = "games_50" /\ totalGames >= 50
            \/ k = "spot_on_5" /\ spotOns >= 5
            \/ k = "spot_on_10" /\ spotOns >= 10
            \/ k = "no_hints" /\ latestTier = "Spot-on!" /\ hintsUsed = 0
            \/ k = "perfect_streak_3" /\ totalGames >= 3
                 /\ \A i \in (totalGames - 2)..totalGames : hist[i].points >= 500
            \/ k = "all_categories" /\ AllCategories \subseteq played}

\* The mutation of earnedIds that finds no earned row.
earnedIds_None(u) == {}

earnedIds(u) == {a.key : a \in {b \in user_achievements : b.user = u}}

(***************************************************************************)
(* POST guess.                                                             *)
(***************************************************************************)
\* The select of the target photo finds its row.
PhotoExists(p) == p \in Photos \ geothinkr_photos.deleted

AlreadyPlayed_Never(u, p) == FALSE

\* The pre-check: a history row of (user, photo) exists.
AlreadyPlayed(u, p) == \E i \in 1..Len(history) : history[i].user = u /\ history[i].photo = p

StartGuess(r, u, p, body) ==
    LET tier == Tier(DistSq(PhotoTable[p], body.x, body.y), body.difficulty)
        pts == finalPoints(basePoints(tier), body.hints_used)
        rec == [Idle EXCEPT !.kind = "guess", !.user = u, !.arg = p, !.tier = tier,
                            !.hints = body.hints_used, !.amount = pts,
                            !.x = body.x, !.y = body.y, !.difficulty = body.difficulty,
                            !.base = basePoints(tier)]
    IN
    /\ CanStart(r, "guess")
    /\ req' = [req EXCEPT ![r] =
          IF u = NoUser THEN Respond([Idle EXCEPT !.kind = "guess"], 401)
          ELSE IF AlreadyPlayed(u, p) THEN Respond(rec, 409)
          ELSE IF ~PhotoExists(p) THEN Respond(rec, 404)
          ELSE [rec EXCEPT !.pc = IF pts > 0 THEN "g_inc" ELSE "g_insert"]]
    /\ UNCHANGED <<points, winner, questLock, progress, history, user_achievements, geothinkr_photos, page>>

\* The result of the rpc is not inspected: an error is ignored.
GuessIncrement(r, ok) ==
    LET rec == req[r] IN
    /\ rec.pc = "g_inc"
    /\ IF ok
       THEN /\ points' = increment_points(points, rec.user, rec.amount)
            /\ req' = [req EXCEPT ![r].pc = "g_insert", ![r].credit = @ + rec.amount]
       ELSE /\ req' = [req EXCEPT ![r].pc = "g_insert", ![r].failed = TRUE]
            /\ UNCHANGED points
    /\ UNCHANGED <<winner, questLock, progress, history, user_achievements, geothinkr_photos, page>>

\* UNIQUE(user_id, photo_id) rejects a second row and the reference to
\* geothinkr_photos rejects a row of a deleted photo; the error is ignored.
InsertHistory(hist, u, p, pts) ==
    IF \/ \E i \in 1..Len(hist) : hist[i].user = u /\ hist[i].photo = p
       \/ ~PhotoExists(p)
    THEN hist
    ELSE Append(hist, [user |-> u, photo |-> p, points |-> pts])

GuessInsert(r, ok) ==
    LET rec == req[r] IN
    /\ rec.pc = "g_insert"
    /\ history' = IF ok THEN InsertHistory(history, rec.user, rec.arg, rec.amount)
                  ELSE history
    /\ req' = [req EXCEPT ![r].pc = "g_ach",
                          ![r].failed = @ \/ history' = history]
    /\ UNCHANGED <<points, winner, questLock, progress, user_achievements, geothinkr_photos, page>>

\* The selects of checkAndAwardAchievements: earned rows, then the history.
GuessAchRead(r) ==
    LET rec == req[r]
        todo == Qualified(HistoryOf(rec.user), rec.tier, rec.hints) \ earnedIds(rec.user)
    IN
    /\ rec.pc = "g_ach"
    /\ req' = [req EXCEPT ![r] =
          IF todo = {} THEN Respond([rec EXCEPT !.seen = HistoryOf(rec.user)], 200)
          ELSE [rec EXCEPT !.pc = "g_award", !.toAward = todo,
                           !.seen = HistoryOf(rec.user)]]
    /\ UNCHANGED <<points, winner, questLock, progress, history, user_achievements, geothinkr_photos, page>>

\* tryAward for every key found: one insert each, then the response.
GuessAchInsert(r) ==
    LET rec == req[r] IN
    /\ rec.pc = "g_award"
    /\ user_achievements' = user_achievements \cup
          {[user |-> rec.user, key |-> k, id |-> r] : k \in rec.toAward}
    /\ req' = [req EXCEPT ![r] = Respond([rec EXCEPT !.earned = rec.toAward], 200)]
    /\ UNCHANGED <<points, winner, questLock, progress, history, geothinkr_photos, page>>

(***************************************************************************)
(* GET game: the photo served for play.  The repository holds the handler  *)
(* twice: game/route.js filters on verified, the copy in part_001 has the  *)
(* filter commented out.  A request is of kind "serve" or "serve_variant". *)
(***************************************************************************)
StoredPhotos == (Photos \ geothinkr_photos.deleted) \cup geothinkr_photos.added

Verified(p) == p \notin geothinkr_photos.unverified

\* The rows the select on geothinkr_photos returns.
SelectedPhotos(kind) ==
    IF kind = "serve" THEN {p \in StoredPhotos : Verified(p)} ELSE StoredPhotos

\* getUser, then the select of the user's history rows.
StartServe(r, u, kind, ok) ==
    /\ CanStart(r, "serve")
    /\ kind \in {"serve", "serve_variant"}
    /\ req' = [req EXCEPT ![r] =
          IF u = NoUser THEN Respond([Idle EXCEPT !.kind = kind], 401)
          ELSE IF ~ok THEN Respond([Idle EXCEPT !.kind = kind, !.user = u], 500)
          ELSE [Idle EXCEPT !.kind = kind, !.user = u, !.pc = "s_photos",
                            !.toAward = {history[i].photo : i \in
                                {j \in 1..Len(history) : history[j].user = u}}]]
    /\ UNCHANGED <<points, winner, questLock, progress, history, user_achievements,
                   geothinkr_photos, page>>

\* The select of the photos, the filter on the played ids (kept in toAward)
\* and the random choice among the rest.
ServePhoto(r, ok) ==
    LET rec == req[r]
        unplayedPhotos == SelectedPhotos(rec.kind) \ rec.toAward
    IN
    /\ rec.pc = "s_photos"
    /\ \/ /\ ~ok
          /\ req' = [req EXCEPT ![r] = Respond(rec, 500)]
       \/ /\ ok /\ unplayedPhotos = {}
          /\ req' = [req EXCEPT ![r] = Respond(rec, 404)]
       \/ /\ ok
          /\ \E randomPhoto \in unplayedPhotos :
                req' = [req EXCEPT ![r] = Respond([rec EXCEPT !.arg = randomPhoto], 200)]
    /\ UNCHANGED <<points, winner, questLock, progress, history, user_achievements,
                   geothinkr_photos, page>>

(***************************************************************************)
(* POST manual award (admin/points/route.js).                              *)
(***************************************************************************)
\* The mutation of Authorized that accepts every verified identity.
Authorized_AnyUser(u) == u # NoUser

\* !user || !user.is_admin
Authorized(u) == u # NoUser /\ u \in Admins

StartAward(r, u, target, amt) ==
    /\ CanStart(r, "award")
    /\ req' = [req EXCEPT ![r] =
          IF ~Authorized(u)
          THEN Respond([Idle EXCEPT !.kind = "award", !.user = u], 401)
          ELSE [Idle EXCEPT !.kind = "award", !.user = u, !.arg = target,
                            !.amount = amt, !.pc = "a_inc", !.cur = points[target]]]
    /\ UNCHANGED <<points, winner, questLock, progress, history, user_achievements, geothinkr_photos, page>>

\* new_points is computed from the balance read before the increment.  The
\* result of the rpc is not inspected.  balance records the stored balance of
\* the target right after the increment, failed that the write was rejected.
AwardIncrement(r, ok) ==
    LET rec == req[r] IN
    /\ rec.pc = "a_inc"
    /\ IF ok
       THEN /\ points' = increment_points(points, rec.arg, rec.amount)
            /\ req' = [req EXCEPT ![r] =
                  Respond([rec EXCEPT !.credit = @ + rec.amount,
                                      !.balance = points'[rec.arg]], 200)]
       ELSE /\ req' = [req EXCEPT ![r] = Respond([rec EXCEPT !.failed = TRUE], 200)]
            /\ UNCHANGED points
    /\ UNCHANGED <<winner, questLock, progress, history, user_achievements, geothinkr_photos, page>>

new_points(rec) == rec.cur + rec.amount

(***************************************************************************)
(* The admin photo routes (api/admin/geothinkr/route.js, lines 15-138).    *)
(* None of them reads the session cookie: u is the identity of the caller  *)
(* and has no influence.  Each handler makes one call to the table.        *)
(***************************************************************************)
NewPhotos == {MaxPhotos + 1}

PhotoRequest(u, p) == [Idle EXCEPT !.kind = "photo", !.user = u, !.arg = p]

AdminPhotoGet(r, u, ok) ==
    /\ CanStart(r, "photo")
    /\ req' = [req EXCEPT ![r] = Respond(PhotoRequest(u, 0), IF ok THEN 200 ELSE 500)]
    /\ UNCHANGED <<points, winner, questLock, progress, history, user_achievements,
                   geothinkr_photos, page>>

AdminPhotoPost(r, u, p, verified, ok) ==
    /\ CanStart(r, "photo")
    /\ p \in NewPhotos \ geothinkr_photos.added
    /\ IF ok
       THEN /\ geothinkr_photos' =
                 [geothinkr_photos EXCEPT
                     !.added = @ \cup {p},
                     !.unverified = IF verified THEN @ ELSE @ \cup {p}]
            /\ req' = [req EXCEPT ![r] = Respond(PhotoRequest(u, p), 201)]
       ELSE /\ req' = [req EXCEPT ![r] = Respond(PhotoRequest(u, p), 500)]
            /\ UNCHANGED geothinkr_photos
    /\ UNCHANGED <<points, winner, questLock, progress, history, user_achievements, page>>

\* update(..).eq("photo_id", id).select().single(): an error when no row matches.
AdminPhotoPatch(r, u, p, verified) ==
    /\ CanStart(r, "photo")
    /\ IF PhotoExists(p)
       THEN /\ geothinkr_photos' =
                 [geothinkr_photos EXCEPT
                     !.unverified = IF verified THEN @ \ {p} ELSE @ \cup {p}]
            /\ req' = [req EXCEPT ![r] = Respond(PhotoRequest(u, p), 200)]
       ELSE /\ req' = [req EXCEPT ![r] = Respond(PhotoRequest(u, p), 500)]
            /\ UNCHANGED geothinkr_photos
    /\ UNCHANGED <<points, winner, questLock, progress, history, user_achievements, page>>

\* The history rows of the photo go with it (ON DELETE CASCADE).
AdminPhotoDelete(r, u, p) ==
    /\ CanStart(r, "photo")
    /\ geothinkr_photos' = [geothinkr_photos EXCEPT !.deleted = @ \cup {p}]
    /\ history' = SelectSeq(history, LAMBDA h : h.photo # p)
    /\ req' = [req EXCEPT ![r] = Respond(PhotoRequest(u, p), 200)]
    /\ UNCHANGED <<points, winner, questLock, progress, user_achievements, page>>

(***************************************************************************)
(* The game page (geothinkr/page.js, part_007).  gameState stays "playing" *)
(* from the display of a photo until the response to a guess arrives.      *)
(***************************************************************************)
Store == <<points, winner, questLock, progress, history, user_achievements,
           geothinkr_photos, req>>

\* startGame, or handleNextRound from a result: loadNewGame sends its GET.
PageLoad ==
    /\ \/ /\ page.gameState = "menu"
          /\ page' = [page EXCEPT !.gameState = "loading", !.currentRound = 1]
       \/ /\ page.gameState = "result"
          /\ page' = IF page.currentRound >= TOTAL_ROUNDS
                     THEN [page EXCEPT !.gameState = "summary"]
                     ELSE [page EXCEPT !.gameState = "loading", !.currentRound = @ + 1]
    /\ UNCHANGED Store

\* The photo arrives: a new photo is shown, no guess is placed, and the timer
\* effect starts an interval when a time limit is set.
PageShow(timed) ==
    /\ page.gameState = "loading"
    /\ page' = [page EXCEPT !.gameState = "playing", !.guess = FALSE, !.sent = 0,
                            !.timer = IF timed THEN "running" ELSE "off"]
    /\ UNCHANGED Store

\* handleMapClick: returns unless gameState is "playing"; setGuess, then
\* submitGuess sends the POST.
PageClick ==
    /\ page.gameState = "playing"
    /\ page.sent < MaxClicks
    /\ page' = [page EXCEPT !.guess = TRUE, !.sent = @ + 1, !.pending = @ + 1]
    /\ UNCHANGED Store

\* The interval finds no time remaining: it is cleared and handleTimeUp
\* calls submitGuess(0, 0, 0, 0).
handleTimeUp ==
    /\ page.gameState = "playing"
    /\ page.timer = "running"
    /\ page' = [page EXCEPT !.timer = "fired", !.sent = @ + 1, !.pending = @ + 1]
    /\ UNCHANGED Store

\* The response to a POST: setGameState("result") when res.ok, otherwise the
\* alert of the catch block.
PageResponse(ok) ==
    /\ page.pending > 0
    /\ page' = [page EXCEPT !.pending = @ - 1,
                            !.gameState = IF ok THEN "result" ELSE @]
    /\ UNCHANGED Store

(***************************************************************************)
(* A request that stops (the handler is killed or times out) between two   *)
(* storage calls: nothing more is written, an open transaction rolls back. *)
(***************************************************************************)
Crash(r) ==
    LET rec == req[r] IN
    /\ rec.pc \notin {"idle", "done"}
    /\ questLock' = [q \in Quests |-> IF questLock[q] = r THEN 0 ELSE questLock[q]]
    /\ req' = [req EXCEPT ![r] =
          Respond([rec EXCEPT !.claim =
                       IF \E q \in Quests : questLock[q] = r THEN "rolledback" ELSE @], -1)]
    /\ UNCHANGED <<points, winner, progress, history, user_achievements, geothinkr_photos, page>>

(***************************************************************************)
(* The completion route alone.                                             *)
(***************************************************************************)
InitQuest == InitWith([r \in 1..MaxQuestReqs |-> "any"])

NextQuest ==
    \/ \E r \in Slots, u \in Identities, q \in PlayQuests, c \in BOOLEAN : StartProgress(r, u, q, c)
    \/ \E r \in Slots, ok \in BOOLEAN : ProgressWrite(r, ok)
    \/ \E r \in Slots : ClaimSelect(r)
    \/ \E r \in Slots : ClaimUpdate(r)
    \/ \E r \in Slots : ClaimCommit(r)
    \/ \E r \in Slots : ClaimError(r)
    \/ \E r \in Slots, ok \in BOOLEAN : ProgressIncrement(r, ok)
    \/ \E r \in Slots : FallbackSelect(r)
    \/ \E r \in Slots : FallbackUpdate(r)
    \/ \E r \in Slots : Crash(r)

SpecQuest == InitQuest /\ [][NextQuest]_vars

(***************************************************************************)
(* The completion route with a store that does not fail: every call of a   *)
(* handler that has started returns, and the row lock of claim_quest is    *)
(* granted once its holder has committed.                                  *)
(***************************************************************************)
NextClaim ==
    \/ \E r \in Slots, u \in Identities, q \in PlayQuests, c \in BOOLEAN : StartProgress(r, u, q, c)
    \/ \E r \in Slots : ProgressWrite(r, TRUE)
    \/ \E r \in Slots : ClaimSelect(r)
    \/ \E r \in Slots : ClaimUpdate(r)
    \/ \E r \in Slots : ClaimCommit(r)
    \/ \E r \in Slots : ProgressIncrement(r, TRUE)

SpecClaim ==
    /\ InitQuest
    /\ [][NextClaim]_vars
    /\ WF_vars(\E r \in Slots : ProgressWrite(r, TRUE))
    /\ WF_vars(\E r \in Slots : ClaimSelect(r))
    /\ WF_vars(\E r \in Slots : ClaimUpdate(r))
    /\ WF_vars(\E r \in Slots : ClaimCommit(r))
    /\ WF_vars(\E r \in Slots : ProgressIncrement(r, TRUE))

(***************************************************************************)
(* Two completion requests over every quest of the table.                  *)
(***************************************************************************)
InitReward == InitWith(<<"progress", "progress">>)

NextReward ==
    \/ \E r \in Slots, u \in Identities, q \in Quests, c \in BOOLEAN : StartProgress(r, u, q, c)
    \/ \E r \in Slots, ok \in BOOLEAN : ProgressWrite(r, ok)
    \/ \E r \in Slots : ClaimSelect(r)
    \/ \E r \in Slots : ClaimUpdate(r)
    \/ \E r \in Slots : ClaimCommit(r)
    \/ \E r \in Slots : ClaimError(r)
    \/ \E r \in Slots, ok \in BOOLEAN : ProgressIncrement(r, ok)
    \/ \E r \in Slots : FallbackSelect(r)
    \/ \E r \in Slots : FallbackUpdate(r)
    \/ \E r \in Slots : Crash(r)

SpecReward == InitReward /\ [][NextReward]_vars

(***************************************************************************)
(* The game page alone, the server being any sequence of responses.        *)
(***************************************************************************)
InitPage == InitWith(<<"guess">>)

NextPage ==
    \/ PageLoad
    \/ \E timed \in BOOLEAN : PageShow(timed)
    \/ PageClick
    \/ handleTimeUp
    \/ \E ok \in BOOLEAN : PageResponse(ok)

SpecPage == InitPage /\ [][NextPage]_vars

(***************************************************************************)
(* The guess route alone.                                                  *)
(***************************************************************************)
InitGuess == InitWith([r \in 1..MaxGuessReqs |-> "any"])

NextGuess ==
    \/ \E r \in Slots, u \in Identities, p \in PlayPhotos, b \in GuessBodies : StartGuess(r, u, p, b)
    \/ \E r \in Slots, ok \in BOOLEAN : GuessIncrement(r, ok)
    \/ \E r \in Slots, ok \in BOOLEAN : GuessInsert(r, ok)
    \/ \E r \in Slots : GuessAchRead(r)
    \/ \E r \in Slots : GuessAchInsert(r)
    \/ \E r \in Slots : Crash(r)

SpecGuess == InitGuess /\ [][NextGuess]_vars

(***************************************************************************)
(* Two guess requests that run concurrently, on two different photos.      *)
(***************************************************************************)
InitPair == InitWith(<<"guess", "guess">>)

NextPair ==
    \/ \E r \in Slots, u \in Identities, b \in GuessBodies : StartGuess(r, u, PairPhotos[r], b)
    \/ \E r \in Slots, ok \in BOOLEAN : GuessIncrement(r, ok)
    \/ \E r \in Slots, ok \in BOOLEAN : GuessInsert(r, ok)
    \/ \E r \in Slots : GuessAchRead(r)
    \/ \E r \in Slots : GuessAchInsert(r)
    \/ \E r \in Slots : Crash(r)

SpecPair == InitPair /\ [][NextPair]_vars

(***************************************************************************)
(* The admin photo routes next to a guess.                                 *)
(***************************************************************************)
InitAdmin == InitWith(<<"photo", "photo", "guess">>)

NextAdmin ==
    \/ \E r \in Slots, u \in Identities, ok \in BOOLEAN : AdminPhotoGet(r, u, ok)
    \/ \E r \in Slots, u \in Identities, p \in NewPhotos, v \in BOOLEAN, ok \in BOOLEAN :
          AdminPhotoPost(r, u, p, v, ok)
    \/ \E r \in Slots, u \in Identities, p \in PlayPhotos, v \in BOOLEAN :
          AdminPhotoPatch(r, u, p, v)
    \/ \E r \in Slots, u \in Identities, p \in PlayPhotos : AdminPhotoDelete(r, u, p)
    \/ \E r \in Slots, u \in Identities, p \in PlayPhotos, b \in GuessBodies :
          StartGuess(r, u, p, b)
    \/ \E r \in Slots, ok \in BOOLEAN : GuessIncrement(r, ok)
    \/ \E r \in Slots, ok \in BOOLEAN : GuessInsert(r, ok)
    \/ \E r \in Slots : GuessAchRead(r)
    \/ \E r \in Slots : GuessAchInsert(r)
    \/ \E r \in Slots : Crash(r)

SpecAdmin == InitAdmin /\ [][NextAdmin]_vars

(***************************************************************************)
(* One guess at a time over the scoring inputs.                            *)
(***************************************************************************)
InitScore == InitWith(<<"guess">>)

NextScore ==
    \/ \E r \in Slots :
          /\ req[r].kind = "idle"
          /\ \E u \in Identities, p \in PlayPhotos, b \in ScoreBodies : StartGuess(r, u, p, b)
    \/ \E r \in Slots, ok \in BOOLEAN : GuessIncrement(r, ok)
    \/ \E r \in Slots, ok \in BOOLEAN : GuessInsert(r, ok)
    \/ \E r \in Slots : GuessAchRead(r)
    \/ \E r \in Slots : GuessAchInsert(r)
    \/ \E r \in Slots : Crash(r)

SpecScore == InitScore /\ [][NextScore]_vars

(***************************************************************************)
(* One guess of photo 1 on top of a history that u1 has played before:     *)
(* n attempts on the photos 2 .. n + 1 of which s scored 500 (the first s  *)
(* or the last s) and the others 200, the balance being their sum, and the *)
(* achievements either not recorded or those the rules give on it.         *)
(***************************************************************************)
EvalLengths == {0, 1, 2, 3, 4, 8, 9, 10, MaxPhotos - 3, MaxPhotos - 2, MaxPhotos - 1}

EvalSpotOns == {0, 1, 2, 3, 4, 5, 8, 9, 10}

PriorHistory(n, s, atEnd) ==
    [i \in 1..n |->
        [user |-> "u1", photo |-> i + 1,
         points |-> IF (atEnd /\ i > n - s) \/ (~atEnd /\ i <= s) THEN 500 ELSE 200]]

PriorRows(keys) == {[user |-> "u1", key |-> k, id |-> 0] : k \in keys}

InitEval ==
    \E n \in EvalLengths, s \in EvalSpotOns, atEnd \in BOOLEAN, recorded \in BOOLEAN :
        /\ s <= n
        /\ history = PriorHistory(n, s, atEnd)
        /\ points = [u \in Users |-> IF u = "u1" THEN 500 * s + 200 * (n - s) ELSE 0]
        /\ user_achievements =
              IF recorded THEN PriorRows(Qualified(history, "Nope", 0)) ELSE {}
        /\ winner = [q \in Quests |-> NoUser]
        /\ questLock = [q \in Quests |-> 0]
        /\ progress = {}
        /\ geothinkr_photos = [deleted |-> {}, unverified |-> {}, added |-> {}]
        /\ req = <<[Idle EXCEPT !.lane = "guess"]>>
        /\ page = Menu

NextEval ==
    \/ \E r \in Slots, u \in Identities, p \in PlayPhotos, b \in GuessBodies :
          StartGuess(r, u, p, b)
    \/ \E r \in Slots, ok \in BOOLEAN : GuessIncrement(r, ok)
    \/ \E r \in Slots, ok \in BOOLEAN : GuessInsert(r, ok)
    \/ \E r \in Slots : GuessAchRead(r)
    \/ \E r \in Slots : GuessAchInsert(r)
    \/ \E r \in Slots : Crash(r)

SpecEval == InitEval /\ [][NextEval]_vars

(***************************************************************************)
(* The photo served for play next to an admin photo request and a guess.   *)
(***************************************************************************)
InitServe == InitWith(<<"photo", "guess", "serve">>)

NextServe ==
    \/ \E r \in Slots, u \in Identities, p \in NewPhotos, v \in BOOLEAN, ok \in BOOLEAN :
          AdminPhotoPost(r, u, p, v, ok)
    \/ \E r \in Slots, u \in Identities, p \in PlayPhotos, v \in BOOLEAN :
          AdminPhotoPatch(r, u, p, v)
    \/ \E r \in Slots, u \in Identities, p \in PlayPhotos : AdminPhotoDelete(r, u, p)
    \/ \E r \in Slots, u \in Identities, p \in PlayPhotos, b \in GuessBodies :
          StartGuess(r, u, p, b)
    \/ \E r \in Slots, ok \in BOOLEAN : GuessIncrement(r, ok)
    \/ \E r \in Slots, ok \in BOOLEAN : GuessInsert(r, ok)
    \/ \E r \in Slots : GuessAchRead(r)
    \/ \E r \in Slots : GuessAchInsert(r)
    \/ \E r \in Slots, u \in Identities, k \in {"serve", "serve_variant"}, ok \in BOOLEAN :
          StartServe(r, u, k, ok)
    \/ \E r \in Slots, ok \in BOOLEAN : ServePhoto(r, ok)
    \/ \E r \in Slots : Crash(r)

SpecServe == InitServe /\ [][NextServe]_vars

(***************************************************************************)
(* One guess at a time with an unvalidated hints_used.                     *)
(***************************************************************************)
InitHints == InitWith(<<"guess">>)

NextHints ==
    \/ \E r \in Slots :
          /\ req[r].kind = "idle"
          /\ \E u \in Identities, p \in PlayPhotos, b \in HintBodies : StartGuess(r, u, p, b)
    \/ \E r \in Slots, ok \in BOOLEAN : GuessIncrement(r, ok)
    \/ \E r \in Slots, ok \in BOOLEAN : GuessInsert(r, ok)
    \/ \E r \in Slots : GuessAchRead(r)
    \/ \E r \in Slots : GuessAchInsert(r)
    \/ \E r \in Slots : Crash(r)

SpecHints == InitHints /\ [][NextHints]_vars

(***************************************************************************)
(* Two manual awards side by side.                                         *)
(***************************************************************************)
InitAward == InitWith(<<"award", "award">>)

NextAward ==
    \/ \E r \in Slots, u \in Identities, t \in Users, a \in ManualAmounts :
          StartAward(r, u, t, a)
    \/ \E r \in Slots, ok \in BOOLEAN : AwardIncrement(r, ok)
    \/ \E r \in Slots : Crash(r)

SpecAward == InitAward /\ [][NextAward]_vars

(***************************************************************************)
(* All routes together: a completion, a guess and a manual award that run  *)
(* concurrently.                                                           *)
(***************************************************************************)
Init == InitWith(<<"progress", "guess", "award">>)

Next ==
    \/ \E r \in Slots, u \in Identities, q \in PlayQuests, c \in BOOLEAN : StartProgress(r, u, q, c)
    \/ \E r \in Slots, ok \in BOOLEAN : ProgressWrite(r, ok)
    \/ \E r \in Slots : ClaimSelect(r)
    \/ \E r \in Slots : ClaimUpdate(r)
    \/ \E r \in Slots : ClaimCommit(r)
    \/ \E r \in Slots : ClaimError(r)
    \/ \E r \in Slots, ok \in BOOLEAN : ProgressIncrement(r, ok)
    \/ \E r \in Slots : FallbackSelect(r)
    \/ \E r \in Slots : FallbackUpdate(r)
    \/ \E r \in Slots, u \in Identities, p \in PlayPhotos, b \in GuessBodies : StartGuess(r, u, p, b)
    \/ \E r \in Slots, ok \in BOOLEAN : GuessIncrement(r, ok)
    \/ \E r \in Slots, ok \in BOOLEAN : GuessInsert(r, ok)
    \/ \E r \in Slots : GuessAchRead(r)
    \/ \E r \in Slots : GuessAchInsert(r)
    \/ \E r \in Slots, u \in Identities, t \in Users, a \in ManualAmounts : StartAward(r, u, t, a)
    \/ \E r \in Slots, ok \in BOOLEAN : AwardIncrement(r, ok)
    \/ \E r \in Slots : Crash(r)

Spec == Init /\ [][Next]_vars

(***************************************************************************)
(* Properties.                                                             *)
(***************************************************************************)
RECURSIVE SumCredit(_)
SumCredit(S) ==
    IF S = {} THEN 0
    ELSE LET r == CHOOSE x \in S : TRUE IN req[r].credit + SumCredit(S \ {r})

RECURSIVE SumPoints(_)
SumPoints(hist) ==
    IF hist = <<>> THEN 0 ELSE Head(hist).points + SumPoints(Tail(hist))

MultiplayerQuests == {q \in Quests : QuestTable[q].is_multiplayer}

SoloQuests == Quests \ MultiplayerQuests

\* The completion requests on quest q, those whose claim_quest call has
\* returned a value, and those it reported Won to.
Attempts(q) == {r \in Slots : req[r].kind = "progress" /\ req[r].arg = q}

Resolved(q) == {r \in Attempts(q) : req[r].claim \in {"true", "false"}}

Won(q) == {r \in Attempts(q) : req[r].claim = "true"}

AllDone == \A r \in Slots : req[r].pc \in {"idle", "done"}

WinnerKept == \A q \in Quests : winner[q] # NoUser => winner'[q] = winner[q]

\* C1: for an open multiplayer quest claimed concurrently, exactly one
\* attempt reports Won as soon as any attempt gets an answer from claim_quest,
\* the requests on the quest have added exactly one reward_points to the
\* balances (to the winner, by the winning request), and winner_id is the
\* winning user in every later state.
C1_OneWinnerState ==
    \A q \in MultiplayerQuests :
        /\ Cardinality(Won(q)) <= 1
        /\ Resolved(q) # {} => Cardinality(Won(q)) = 1
        /\ \A r \in Won(q) :
              /\ winner[q] = req[r].user
              /\ req[r].credit = QuestTable[q].reward_points
        /\ SumCredit(Attempts(q)) =
              IF winner[q] = NoUser THEN 0 ELSE QuestTable[q].reward_points
        /\ winner[q] # NoUser => Won(q) # {}

C1_ExactlyOneWinner == [](C1_OneWinnerState) /\ [][WinnerKept]_vars

C1_Witness ==
    \E a, b \in Attempts("qm") :
        /\ req[a].user # req[b].user
        /\ req[a].claim = "true" /\ req[b].claim = "false"
        /\ req[a].pc = "done" /\ req[b].pc = "done"

\* C2: a user scores a photo at most once, also under two concurrent
\* submissions: at most one history row of (user, photo), and at most one of
\* the submissions for (user, photo) has added points to the balance.
GuessesOf(u, p) ==
    {r \in Slots : req[r].kind = "guess" /\ req[r].user = u /\ req[r].arg = p}

C2_ScoredAtMostOnce ==
    \A u \in Users, p \in Photos :
        /\ Cardinality({i \in 1..Len(history) :
                            history[i].user = u /\ history[i].photo = p}) <= 1
        /\ Cardinality({r \in GuessesOf(u, p) : req[r].credit > 0}) <= 1

\* C3: no credit without its history row: once every request has ended
\* (answered, failed or stopped), what the guesses of a user have added to
\* the balance is the sum of points_awarded over the user's history rows.
C3_NoPartialCredit ==
    AllDone =>
        \A u \in Users :
            SumCredit({r \in Slots : req[r].kind = "guess" /\ req[r].user = u})
                = SumPoints(HistoryOf(u))

\* C4: in no state, also after a failure or a stop in the middle of a claim,
\* is a user recorded as winner of a quest without the claim of that user
\* having added the quest's reward_points to that user's balance.
C4_NoWinnerWithoutPayout ==
    \A q \in Quests :
        winner[q] # NoUser =>
            \E r \in Attempts(q) :
                /\ req[r].user = winner[q]
                /\ req[r].claim = "true"
                /\ req[r].credit = QuestTable[q].reward_points

C4_Witness ==
    /\ winner["qm"] # NoUser
    /\ \E r \in Attempts("qm") :
          /\ req[r].pc = "done"
          /\ req[r].claim = "rolledback"
          /\ req[r].credit = 0

\* C5: no lost update: the balance of every user is the initial balance (0)
\* plus the sum of the awards that were applied to it.
CreditedUser(r) == IF req[r].kind = "award" THEN req[r].arg ELSE req[r].user

C5_NoLostUpdate ==
    \A u \in Users :
        points[u] = SumCredit({r \in Slots : req[r].kind # "idle" /\ CreditedUser(r) = u})

\* C6: winner_id is write-once: a step never changes a non-null winner_id.
C6_WinnerWriteOnce == [][WinnerKept]_vars

C6_Witness ==
    /\ winner["qm"] # NoUser
    /\ \E r \in Attempts("qm") :
          req[r].user # winner["qm"] /\ req[r].claim = "false" /\ req[r].pc = "done"

\* C7: once the ledger holds the accepted attempt of (u, t), a submission by
\* u for t that arrives is answered 409 and changes neither the balances nor
\* the history nor the achievements.
C7_Arrives(r) ==
    /\ req[r].kind = "idle"
    /\ req'[r].kind = "guess"
    /\ req'[r].user # NoUser
    /\ \E i \in 1..Len(history) :
          history[i].user = req'[r].user /\ history[i].photo = req'[r].arg

C8_LoserGetsConflict ==
    \A q \in MultiplayerQuests :
        /\ \A r \in Attempts(q) :
              req[r].claim = "false" =>
                  req[r].status = 409 /\ req[r].pc = "done" /\ req[r].credit = 0
        /\ Resolved(q) # {} =>
              \E w \in Resolved(q) :
                  /\ req[w].claim = "true" /\ req[w].status = 200
                  /\ winner[q] = req[w].user
                  /\ req[w].credit = QuestTable[q].reward_points
                  /\ \A r \in Resolved(q) \ {w} : req[r].claim = "false"

C8_Witness ==
    \E a, b \in Attempts("qm") :
        /\ req[a].user = "u1" /\ req[b].user = "u2"
        /\ {req[a].status, req[b].status} = {200, 409}
        /\ {req[a].credit, req[b].credit} = {0, QuestTable["qm"].reward_points}
        /\ winner["qm"] \in {"u1", "u2"}

\* C9: on a multiplayer quest that has a winner, no step of a completion
\* request changes winner_id or a balance, and a claim_quest call that
\* answers reports Lost: the request is answered 409.
C9_Claiming(r) ==
    /\ req[r].kind = "progress"
    /\ req[r].arg \in MultiplayerQuests
    /\ winner[req[r].arg] # NoUser
    /\ req'[r] # req[r]

C10_ClaimReturns(r) ==
    /\ req[r].kind = "progress"
    /\ req[r].arg \in SoloQuests
    /\ req[r].pc \in {"c_select", "c_update", "c_commit"}
    /\ req'[r].pc # req[r].pc

C10_SoloState ==
    \A q \in SoloQuests :
        /\ winner[q] = NoUser
        /\ questLock[q] = 0
        /\ \A r \in Attempts(q) : req[r].claim # "false"

C10_SoloNotContested ==
    /\ [](C10_SoloState)
    /\ [][\A r \in Slots :
             C10_ClaimReturns(r) =>
                 /\ UNCHANGED <<points, winner, questLock>>
                 /\ req'[r].claim \in {"true", "error"} \/ req'[r].status = -1]_vars

C10_Witness ==
    \E a, b \in Attempts("qs") :
        /\ a # b
        /\ req[a].claim = "true" /\ req[b].claim = "true"
        /\ req[a].user # req[b].user

\* C11: the point balance of every user is non-negative in every state.
C11_BalanceNonNegative == \A u \in Users : points[u] >= 0

\* C12: at most one progress row exists per (user, quest) in every state.
C12_OneProgressRow ==
    \A u \in Users, q \in Quests :
        Cardinality({p \in progress : p.user = u /\ p.quest = q}) <= 1

\* C13: at most one user_achievements row exists per (user, achievement) in
\* every state, also when two guesses of a user on different photos run the
\* evaluator concurrently.
C13_OneRowPerAchievement ==
    \A u \in Users, k \in AchievementKeys :
        Cardinality({a \in user_achievements : a.user = u /\ a.key = k}) <= 1

\* C14: a request without a valid session token is answered 401 on arrival
\* and its handler changes nothing in the store.
C14_Arrives(r) ==
    /\ req[r].kind = "idle"
    /\ req'[r].kind # "idle"
    /\ req'[r].user = NoUser

C14_UnauthenticatedRejected ==
    [][\A r \in Slots :
          C14_Arrives(r) =>
              /\ req'[r].status = 401 /\ req'[r].pc = "done"
              /\ UNCHANGED <<points, winner, questLock, progress, history,
                             user_achievements, geothinkr_photos>>]_vars

\* C15: a manual award request of an unauthenticated or non-admin identity is
\* answered 401 on arrival, is never credited with a change of a balance,
\* and no step of it changes a balance.
C15_OnlyAdminAwards ==
    [][\A r \in Slots :
          (req'[r].kind = "award" /\ req'[r].user \notin Admins) =>
              /\ req'[r].status = 401
              /\ req'[r].credit = 0
              /\ req'[r] # req[r] => points' = points]_vars

C15_Witness ==
    /\ \E r \in Slots : req[r].kind = "award" /\ req[r].user = "u2" /\ req[r].status = 401
    /\ \E r \in Slots : req[r].kind = "award" /\ req[r].user = NoUser /\ req[r].status = 401

\* C16: the new_points value of a manual award whose increment was applied
\* equals the target's stored balance right after that increment.
C16_NewPointsIsBalance ==
    \A r \in Slots :
        (req[r].kind = "award" /\ req[r].status = 200 /\ req[r].credit # 0) =>
            new_points(req[r]) = req[r].balance

\* C17: a guess, quest completion or manual award in which the increment of
\* the balance or the history insert failed is not answered with a success.
C17_FailureSurfaced ==
    \A r \in Slots : (req[r].pc = "done" /\ req[r].failed) => req[r].status # 200

\* A guess that the handler has scored (it passed the sign-in check, the
\* repeat check and the photo lookup).
Scored(r) ==
    /\ req[r].kind = "guess"
    /\ req[r].user # NoUser
    /\ req[r].status \notin {401, 409, 404}

\* C18: the tier and the base points of every scored guess follow the table:
\* radii 50/150 for hard, 75/200 for medium, 100/300 for easy and any other
\* difficulty; within the first radius Spot-on!/500, within the second Close
\* enough/200, beyond it Nope/0, both boundaries inclusive.
C18_ScoringTable ==
    \A r \in Slots :
        Scored(r) =>
            LET rec == req[r]
                dx == PhotoTable[rec.arg].x_coordinate - rec.x
                dy == PhotoTable[rec.arg].y_coordinate - rec.y
                d2 == dx * dx + dy * dy
                spotOn == IF rec.difficulty = "hard" THEN 50
                          ELSE IF rec.difficulty = "medium" THEN 75 ELSE 100
                close == IF rec.difficulty = "hard" THEN 150
                         ELSE IF rec.difficulty = "medium" THEN 200 ELSE 300
            IN  IF d2 <= spotOn * spotOn
                THEN rec.tier = "Spot-on!" /\ rec.base = 500
                ELSE IF d2 <= close * close
                THEN rec.tier = "Close enough" /\ rec.base = 200
                ELSE rec.tier = "Nope" /\ rec.base = 0

\* A medium guess at the distance 75 exactly (offsets 45 and 60) was answered
\* as Spot-on! with the base 500.
C18_Witness ==
    \E r \in Slots :
        /\ Scored(r) /\ req[r].status = 200
        /\ req[r].difficulty = "medium" /\ req[r].x = 145 /\ req[r].y = 160
        /\ req[r].tier = "Spot-on!" /\ req[r].base = 500

\* C19: the points of every scored guess are max(base - 100 * hints, 0), hence
\* between 0 and the base points.
C19_HintDeduction ==
    \A r \in Slots :
        Scored(r) =>
            LET rec == req[r] IN
            /\ rec.base \in {0, 200, 500}
            /\ rec.base - 100 * rec.hints >= 0 => rec.amount = rec.base - 100 * rec.hints
            /\ rec.base - 100 * rec.hints < 0 => rec.amount = 0
            /\ 0 <= rec.amount /\ rec.amount <= rec.base

\* A Close enough guess with more hints than its base pays for was answered
\* with 0 points.
C19_Witness ==
    \E r \in Slots :
        /\ Scored(r) /\ req[r].status = 200
        /\ req[r].base = 200 /\ req[r].hints = MaxHints /\ req[r].amount = 0

\* The guess of slot r was answered and its attempt is in the ledger.
Accepted(r) ==
    /\ req[r].kind = "guess" /\ req[r].status = 200
    /\ \E i \in 1..Len(history) :
           history[i].user = req[r].user /\ history[i].photo = req[r].arg

\* The achievements of u recorded before the guess of slot r.
EarnedBefore(u, r) == {a.key : a \in {b \in user_achievements : b.user = u /\ b.id # r}}

\* The rule of one achievement on the attempts h (oldest first) and a guess.
RuleHolds(k, h, rec) ==
    LET n == Len(h)
        high == {i \in 1..n : h[i].points >= 500}
        cats == {PhotoCategory(h[i].photo) : i \in 1..n}
    IN  CASE k = "first_guess" -> n >= 1
          [] k = "games_10" -> n >= 10
          [] k = "games_50" -> n >= 50
          [] k = "spot_on_5" -> Cardinality(high) >= 5
          [] k = "spot_on_10" -> Cardinality(high) >= 10
          [] k = "no_hints" -> rec.tier = "Spot-on!" /\ rec.hints = 0
          [] k = "perfect_streak_3" -> n >= 3 /\ {n - 2, n - 1, n} \subseteq high
          [] k = "all_categories" ->
                 {"landmark", "building", "nature", "statue", "other"} \subseteq cats
          [] OTHER -> FALSE

\* C20: the achievements an accepted guess reports as newly earned are exactly
\* the keys not earned before whose rule holds on the user's attempts with
\* the one just recorded.
C20_NewlyEarned ==
    \A r \in Slots :
        Accepted(r) =>
            LET u == req[r].user
                h == SelectSeq(history, LAMBDA a : a.user = u)
            IN  req[r].earned =
                    {k \in AchievementKeys \ EarnedBefore(u, r) : RuleHolds(k, h, req[r])}

\* A first guess that is Spot-on! with one hint earned first_guess only.
C20_Witness ==
    \E r \in Slots :
        /\ Accepted(r)
        /\ Len(history) = 1
        /\ req[r].tier = "Spot-on!" /\ req[r].hints = 1
        /\ req[r].earned = {"first_guess"}

\* The evaluator ran to its end for the guess of slot r2, for the user, the
\* history and the outcome with which it is about to run for slot r.
EvaluatedBefore(r2, r) ==
    /\ r2 # r
    /\ req[r2].kind = "guess" /\ req[r2].status = 200
    /\ req[r2].user = req[r].user
    /\ req[r2].seen = SelectSeq(history, LAMBDA a : a.user = req[r].user)
    /\ req[r2].tier = req[r].tier /\ req[r2].hints = req[r].hints

\* C21: a run of the evaluator that follows a finished run for the same user,
\* history and latest outcome inserts no user_achievements row, reports no
\* key and leaves the earned rows as they were.
C21_EvaluatorIdempotent ==
    [][\A r \in Slots :
          (/\ req[r].pc = "g_ach" /\ req'[r].pc # "g_ach" /\ req'[r].status # -1
           /\ \E r2 \in Slots : EvaluatedBefore(r2, r)) =>
              /\ req'[r].status = 200
              /\ req'[r].earned = {} /\ req'[r].toAward = {}
              /\ user_achievements' = user_achievements]_vars

\* A second run on the same history and outcome has answered: the first run
\* reported keys, the second none.
C21_Witness ==
    \E r, r2 \in Slots :
        /\ r # r2
        /\ req[r].kind = "guess" /\ req[r].status = 200
        /\ req[r2].kind = "guess" /\ req[r2].status = 200
        /\ req[r].user = req[r2].user
        /\ req[r].seen = req[r2].seen /\ req[r].seen # <<>>
        /\ req[r].tier = req[r2].tier /\ req[r].hints = req[r2].hints
        /\ req[r2].earned # {} /\ req[r].earned = {}

\* The photos that are stored, verified and without a history row of u.
Servable(u) ==
    {p \in (Photos \ geothinkr_photos.deleted) \cup geothinkr_photos.added :
        /\ p \notin geothinkr_photos.unverified
        /\ ~\E i \in 1..Len(history) : history[i].user = u /\ history[i].photo = p}

\* C22: the step in which GET game answers a signed-in user returns a photo
\* that is verified and that the user has not played, and it answers 404
\* exactly when there is no such photo.
C22_ServesVerifiedUnplayed ==
    [][\A r \in Slots :
          (req[r].pc = "s_photos" /\ req'[r].pc = "done" /\ req'[r].status \in {200, 404}) =>
              /\ req'[r].status = 200 => req'[r].arg \in Servable(req[r].user)
              /\ req'[r].status = 404 <=> Servable(req[r].user) = {}]_vars

\* C23: for a quest that is not multiplayer, at most one completion request
\* of a user is credited with the reward.
C23_SoloRewardOnce ==
    \A u \in Users, q \in SoloQuests :
        Cardinality({r \in Slots : /\ req[r].kind = "progress"
                                   /\ req[r].user = u /\ req[r].arg = q
                                   /\ req[r].credit > 0}) <= 1

\* C24: with a store that does not fail, a multiplayer quest that a user has
\* sent a completion request for is eventually closed; the winner of a closed
\* quest is a user that sent one; a closed quest is never open again.
C24_EventuallyClosed ==
    /\ \A q \in MultiplayerQuests : (Attempts(q) # {}) ~> (winner[q] # NoUser)
    /\ [](\A q \in MultiplayerQuests :
             winner[q] # NoUser => \E r \in Attempts(q) : req[r].user = winner[q])
    /\ [][\A q \in MultiplayerQuests : winner[q] # NoUser => winner'[q] # NoUser]_vars

\* Two users sent a completion request for the multiplayer quest and it is
\* closed with one of them as winner.
C24_Witness ==
    \E r1, r2 \in Attempts("qm") :
        /\ req[r1].user # req[r2].user
        /\ req[r1].pc = "done" /\ req[r2].pc = "done"
        /\ winner["qm"] = req[r1].user

\* C25: a completion request that is credited is credited with the
\* reward_points stored on its quest, also when that value is 0.
C25_CreditIsQuestReward ==
    \A r \in Slots :
        (req[r].kind = "progress" /\ req[r].credit # 0) =>
            req[r].credit = QuestTable[req[r].arg].reward_points

\* C26: the expiry of the round timer sends its guess only when no guess has
\* been placed for the photo shown, and after it at most one submission has
\* been sent for that photo.
C26_TimerSubmitsOnlyWithoutGuess ==
    [][(page.timer = "running" /\ page'.timer = "fired") =>
           /\ ~page.guess
           /\ page'.sent <= 1]_vars

\* C27: a completion request with completed = false is never the one that
\* claim_quest records as winner of a multiplayer quest, and is credited
\* with nothing.
C27_OnlyCompletedClaims ==
    \A r \in Slots :
        (req[r].kind = "progress" /\ req[r].user # NoUser /\ ~req[r].completed) =>
            /\ req[r].credit = 0
            /\ req[r].arg \in MultiplayerQuests => req[r].claim # "true"

\* C28: after a completion request was answered 409, no progress row written
\* by it marks the quest completed for the requester.
C28_LostClaimLeavesProgress ==
    \A r \in Slots :
        (req[r].kind = "progress" /\ req[r].status = 409) =>
            ~\E p \in progress :
                /\ p.id = r
                /\ p.user = req[r].user /\ p.quest = req[r].arg
                /\ p.completed

\* C29: a completion request with completed = true for a multiplayer quest
\* that was answered 200 is of the user recorded as the quest's winner and
\* was credited with the quest's reward.
C29_SuccessOnlyToWinner ==
    \A r \in Slots :
        (/\ req[r].kind = "progress" /\ req[r].status = 200
         /\ req[r].completed /\ req[r].arg \in MultiplayerQuests) =>
            /\ winner[req[r].arg] = req[r].user
            /\ req[r].credit = QuestTable[req[r].arg].reward_points

\* C30: the points of a scored guess, the amount credited for it and the
\* points of every history row lie between 0 and 500.
C30_PointsInRange ==
    /\ \A r \in Slots :
           Scored(r) => req[r].amount \in 0..500 /\ req[r].credit \in 0..500
    /\ \A i \in 1..Len(history) : history[i].points \in 0..500

====
